---- MODULE Spec2Model ----
(***************************************************************************)
(* A model of cheatsheet_generator: the data model (models.py) and the     *)
(* layout computations of PDFGenerator (generator.py).                     *)
(*                                                                         *)
(* Python dicts are insertion ordered; a dict is modelled as a sequence of *)
(* entries [name, ...] with distinct names, in insertion order.            *)
(*                                                                         *)
(* Lengths of the configuration are whole points.  Page sizes are kept in  *)
(* units of 1/254 point (Unit), in which LETTER and A4 are both whole      *)
(* numbers (A4 = 210mm x 297mm, 1mm = 72/25.4 point), so every quotient    *)
(* the code takes is modelled exactly as a rational number.  The code      *)
(* computes in binary floating point; the two agree on math.ceil unless a  *)
(* quotient falls within rounding error of a whole number, which no        *)
(* configuration of this model produces.                                   *)
(***************************************************************************)
EXTENDS Integers, Sequences, FiniteSets, TLC

VARIABLES
    hotkeys,    \* CheatSheet.hotkeys: the ordered list of Hotkey
    config,     \* CheatSheet.config: a CheatSheetConfig
    last,       \* the name of the operation performed last
    args,       \* the arguments it was called with
    ret         \* what it returned or raised

vars == <<hotkeys, config, last, args, ret>>

\* ------------------------------------------------------------------ bounds

\* Longest hotkey list of the data-model specification.
MaxListLen == 3
\* Longest hotkey list of the layout specifications.
MaxHotkeys == 4

\* Longest hotkey list of a document handed to the renderer.
MaxSpacerHotkeys == 2

\* ------------------------------------------------------------- return values

Returned(v) == [ok |-> TRUE, val |-> v, err |-> ""]
Raised(e) == [ok |-> FALSE, val |-> <<>>, err |-> e]
None == Returned(<<>>)

\* ----------------------------------------------------------------- models.py

\* Python truthiness of a str: the empty string is falsy.
Truthy(s) == s # ""

\* A Hotkey that is refused only when all three are empty.
Hotkey_and(key, description, section, subsection) ==
    IF ~Truthy(key) /\ ~Truthy(description) /\ ~Truthy(section)
    THEN Raised("ValueError")
    ELSE Returned([key |-> key, description |-> description,
                   section |-> section, subsection |-> subsection])

\* Hotkey(key, description, section, subsection): the dataclass constructor
\* followed by __post_init__.
Hotkey(key, description, section, subsection) ==
    IF ~Truthy(key) \/ ~Truthy(description) \/ ~Truthy(section)
    THEN Raised("ValueError")
    ELSE Returned([key |-> key, description |-> description,
                   section |-> section, subsection |-> subsection])

\* The dataclass fields of CheatSheetConfig with their defaults.
DefaultConfig ==
    [title |-> "Hotkey Cheat Sheet",
     font_size |-> 7,
     header_font_size |-> 10,
     margin |-> 25,
     columns |-> 5,
     row_height |-> 11,
     section_spacing |-> 8,
     subsection_spacing |-> 4,
     paper_size |-> "letter",
     orientation |-> "portrait",
     fill_top_half |-> FALSE,
     section_align_flush |-> TRUE,
     section_no_awkward_breaks |-> TRUE]

FieldNames == DOMAIN DefaultConfig

\* hasattr(CheatSheetConfig, k): every field has a default, so every field
\* is a class attribute; so are the classmethod from_dict and the methods
\* the dataclass decorator and object give the class.
hasattr(k) ==
    k \in FieldNames \cup {"from_dict", "__init__", "__eq__", "__repr__",
                           "__class__", "__doc__", "__dataclass_fields__"}

\* CheatSheetConfig.from_dict(data): cls(**{k: v for k, v in data.items()
\* if hasattr(cls, k)}).  The generated __init__ takes the fields only and
\* raises TypeError on any other keyword.
from_dict(data) ==
    LET kwargs == {k \in DOMAIN data : hasattr(k)}
    IN  IF kwargs \subseteq FieldNames
        THEN Returned([f \in FieldNames |->
                         IF f \in kwargs THEN data[f] ELSE DefaultConfig[f]])
        ELSE Raised("TypeError")

\* Position of the entry called name in an ordered dict, 0 when absent.
IndexOf(dict, name) ==
    IF \E i \in 1..Len(dict) : dict[i].name = name
    THEN CHOOSE i \in 1..Len(dict) : dict[i].name = name
    ELSE 0

\* hotkey.subsection or "General"
SubsectionName(hotkey) ==
    IF Truthy(hotkey.subsection) THEN hotkey.subsection ELSE "General"

\* One iteration of the loop of get_sections.
AddToSections(sections, hotkey) ==
    LET s1 == IF IndexOf(sections, hotkey.section) = 0
              THEN Append(sections, [name |-> hotkey.section, subsections |-> <<>>])
              ELSE sections
        i == IndexOf(s1, hotkey.section)
        subsection == SubsectionName(hotkey)
        subs == s1[i].subsections
        u1 == IF IndexOf(subs, subsection) = 0
              THEN Append(subs, [name |-> subsection, hotkeys |-> <<>>])
              ELSE subs
        j == IndexOf(u1, subsection)
        u2 == [u1 EXCEPT ![j].hotkeys = Append(@, hotkey)]
    IN  [s1 EXCEPT ![i].subsections = u2]

\* The loop of get_sections over the hotkeys hs left to read.
RECURSIVE SectionsLoop(_, _)
SectionsLoop(sections, hs) ==
    IF hs = <<>> THEN sections
    ELSE SectionsLoop(AddToSections(sections, Head(hs)), Tail(hs))

\* A result kept from before the last append.
get_sections_cached(hs) ==
    IF last = "append"
    THEN SectionsLoop(<<>>, SubSeq(hs, 1, Len(hs) - 1))
    ELSE SectionsLoop(<<>>, hs)

\* CheatSheet.get_sections() on the hotkey list hs.
get_sections(hs) == SectionsLoop(<<>>, hs)

\* -------------------------------------------------------------- generator.py

COLUMN_SPACING == 15
FRAME_PADDING_TOP == 6
FRAME_PADDING_BOTTOM == 6
FRAME_PADDING_LEFT == 3
FRAME_PADDING_RIGHT == 3

\* Units of a page length per point: 1 mm = 72/25.4 = 360/127 point.
Unit == 2 * 127

\* reportlab.lib.pagesizes: LETTER = (8.5 inch, 11 inch),
\* A4 = (210 mm, 297 mm), as <<width, height>> in 1/Unit point.
LETTER == <<612 * Unit, 792 * Unit>>
A4 == <<210 * 720, 297 * 720>>

\* reportlab.lib.pagesizes.landscape: the longer side becomes the width.
landscape(size) ==
    IF size[1] < size[2] THEN <<size[2], size[1]>> ELSE size

\* str.lower() on the strings a configuration names a paper or an
\* orientation with.
lower(s) ==
    CASE s = "A4" -> "a4"
      [] s = "Letter" -> "letter"
      [] s = "Landscape" -> "landscape"
      [] s = "Portrait" -> "portrait"
      [] OTHER -> s

\* PDFGenerator._get_page_size(): <<page_width, page_height>> in 1/Unit point.
_get_page_size(cfg) ==
    LET base_size == IF lower(cfg.paper_size) = "a4" THEN A4 ELSE LETTER
    IN  IF lower(cfg.orientation) = "landscape" THEN landscape(base_size)
        ELSE base_size

\* A quotient n/d of the code, kept exact.
Quotient(n, d) == [n |-> n, d |-> d]

\* math.ceil(n / d) for d # 0.
Ceil(n, d) ==
    IF d > 0 THEN -((-n) \div d) ELSE -(n \div (-d))

Max(a, b) == IF a >= b THEN a ELSE b

\* PDFGenerator._calculate_layout(): column_width as a quotient and
\* usable_height, both in 1/Unit point; dividing by zero columns raises.
_calculate_layout(cfg) ==
    LET page == _get_page_size(cfg)
        usable_width == page[1] - 2 * cfg.margin * Unit
        usable_height == page[2] - 2 * cfg.margin * Unit
        total_column_spacing == (cfg.columns - 1) * COLUMN_SPACING * Unit
    IN  IF cfg.columns = 0 THEN Raised("ZeroDivisionError")
        ELSE Returned([column_width |->
                          Quotient(usable_width - total_column_spacing, cfg.columns),
                       usable_height |-> usable_height])

\* sum(len(subsections) for subsections in sections.values())
RECURSIVE SumSubsections(_)
SumSubsections(sections) ==
    IF sections = <<>> THEN 0
    ELSE Len(Head(sections).subsections) + SumSubsections(Tail(sections))

\* max(min_pages, math.ceil(effective_height / usable_height)), with
\* effective_height = total_height / columns; total_height in points,
\* usable_height in 1/Unit point.
PagesNeeded(total_height, columns, usable_height) ==
    Max(1, Ceil(total_height * Unit, columns * usable_height))

\* A total height from which the rows are taken off.
TotalHeight_less_rows(hs, cfg) ==
    LET sections == get_sections(hs)
    IN  30 + Len(sections) * 15 + SumSubsections(sections) * 12
          - Len(hs) * cfg.row_height + Len(sections) * cfg.section_spacing

\* total_height of estimate_pages, in points.
TotalHeight(hs, cfg) ==
    LET total_hotkeys == Len(hs)
        sections == get_sections(hs)
        title_height == 30
        section_headers_height == Len(sections) * 15
        total_subsections == SumSubsections(sections)
        subsection_headers_height == total_subsections * 12
        hotkey_height == total_hotkeys * cfg.row_height
        spacing_height == Len(sections) * cfg.section_spacing
    IN  title_height + section_headers_height + subsection_headers_height
          + hotkey_height + spacing_height

\* PDFGenerator._get_actual_frame_height(), in 1/Unit point (a whole
\* number: page heights and Unit are even).
_get_actual_frame_height(cfg) ==
    LET usable_height == _get_page_size(cfg)[2] - 2 * cfg.margin * Unit
    IN  IF cfg.fill_top_half THEN (usable_height - cfg.margin * Unit) \div 2
        ELSE usable_height

\* estimate_pages dividing by the height of the frames actually laid out.
estimate_pages_by_frame_height(hs, cfg) ==
    IF cfg.columns * _get_actual_frame_height(cfg) = 0
    THEN Raised("ZeroDivisionError")
    ELSE Returned(PagesNeeded(TotalHeight(hs, cfg), cfg.columns,
                              _get_actual_frame_height(cfg)))

\* PDFGenerator.estimate_pages() for the hotkey list hs and configuration cfg.
estimate_pages(hs, cfg) ==
    LET layout == _calculate_layout(cfg)
    IN  IF ~layout.ok THEN layout
        ELSE IF cfg.columns * layout.val.usable_height = 0
             THEN Raised("ZeroDivisionError")
        ELSE Returned(PagesNeeded(TotalHeight(hs, cfg), cfg.columns,
                                  layout.val.usable_height))

\* Frame(x, y, width, height, paddings): x and width are quotients, y and
\* height whole numbers, all in 1/Unit point.
Frame(x, y, width, height) ==
    [x |-> x, y |-> y, width |-> width, height |-> height,
     leftPadding |-> FRAME_PADDING_LEFT, rightPadding |-> FRAME_PADDING_RIGHT,
     topPadding |-> FRAME_PADDING_TOP, bottomPadding |-> FRAME_PADDING_BOTTOM]

\* The frames of one row: for i in range(columns), at height y.
\* x = margin + i * (frame_width + COLUMN_SPACING), over the denominator
\* of frame_width.
FrameRow(cfg, frame_width, y, frame_height) ==
    [k \in 1..cfg.columns |->
        Frame(Quotient(cfg.margin * Unit * frame_width.d
                         + (k - 1) * (frame_width.n + COLUMN_SPACING * Unit * frame_width.d),
                       frame_width.d),
              y, frame_width, frame_height)]

\* A planner that lays out one full-height row in either mode.
_create_multicolumn_doc_one_row(cfg) ==
    LET page == _get_page_size(cfg)
        frame_width == Quotient(page[1] - 2 * cfg.margin * Unit
                                  - (cfg.columns - 1) * COLUMN_SPACING * Unit,
                                cfg.columns)
    IN  Returned(FrameRow(cfg, frame_width, cfg.margin * Unit,
                          page[2] - 2 * cfg.margin * Unit))

\* PDFGenerator._create_multicolumn_doc(): the frames of the page template.
_create_multicolumn_doc(cfg) ==
    LET page == _get_page_size(cfg)
        page_width == page[1]
        page_height == page[2]
        total_horizontal_margin == 2 * cfg.margin * Unit
        total_column_spacing == (cfg.columns - 1) * COLUMN_SPACING * Unit
        frame_width == Quotient(page_width - total_horizontal_margin
                                  - total_column_spacing, cfg.columns)
    IN  IF cfg.columns = 0 THEN Raised("ZeroDivisionError")
        ELSE IF cfg.fill_top_half
        THEN LET usable_height == page_height - total_horizontal_margin
                 frame_height == (usable_height - cfg.margin * Unit) \div 2
             IN  Returned(
                    FrameRow(cfg, frame_width,
                             cfg.margin * Unit + frame_height + cfg.margin * Unit,
                             frame_height)
                    \o FrameRow(cfg, frame_width, cfg.margin * Unit, frame_height))
        ELSE Returned(FrameRow(cfg, frame_width, cfg.margin * Unit,
                               page_height - total_horizontal_margin))

\* ---------------------------------------------- generator.py: the flowables

\* str.upper() on the section names of the model.
upper(s) ==
    CASE s = "Editing" -> "EDITING"
      [] s = "editing" -> "EDITING"
      [] OTHER -> s

\* xml.sax.saxutils.escape on the keys and descriptions of the model:
\* & < > are rewritten, every other character is kept.
escape(s) ==
    CASE s = "Ctrl+<" -> "Ctrl+&lt;"
      [] OTHER -> s

\* Paragraph(text, styles[style]); text is kept without its constant markup.
Paragraph(text, style) == [type |-> "Paragraph", style |-> style, text |-> text]

Spacer(width, height) == [type |-> "Spacer", width |-> width, height |-> height]

\* ConditionalSpacer.__init__; height in points, frame_height in 1/Unit point.
ConditionalSpacer(height, frame_height, total_frame_padding_vertical) ==
    [type |-> "ConditionalSpacer", height |-> height, frame_height |-> frame_height,
     total_frame_padding_vertical |-> total_frame_padding_vertical]

\* ConditionalSpacer.wrap with a strict comparison.
ConditionalSpacer_wrap_strict(self, availWidth, availHeight) ==
    LET expected_available_at_top ==
            self.frame_height - self.total_frame_padding_vertical * Unit
    IN  IF availHeight * 100 > expected_available_at_top * 95
        THEN <<availWidth, 0>>
        ELSE <<availWidth, self.height>>

\* ConditionalSpacer.wrap(availWidth, availHeight): (width, height) of the
\* spacer; availHeight and the returned width in 1/Unit point, the returned
\* height in points.  threshold_percentage = 0.95 is taken as 95/100.
ConditionalSpacer_wrap(self, availWidth, availHeight) ==
    LET expected_available_at_top ==
            self.frame_height - self.total_frame_padding_vertical * Unit
    IN  IF availHeight * 100 >= expected_available_at_top * 95
        THEN <<availWidth, 0>>
        ELSE <<availWidth, self.height>>

KeepTogether(flowables) == [type |-> "KeepTogether", flowables |-> flowables]

\* PDFGenerator._create_hotkey_table(hotkeys): None (here <<>>) for no
\* hotkeys, else a Table of one [key, description] row per hotkey, its
\* column widths 35% and 65% of the column width.
_create_hotkey_table(hs, cfg) ==
    IF hs = <<>> THEN <<>>
    ELSE LET column_width == _calculate_layout(cfg).val.column_width
         IN  [type |-> "Table",
              data |-> [p \in 1..Len(hs) |->
                          <<escape(hs[p].key), escape(hs[p].description)>>],
              colWidths |-> <<Quotient(column_width.n * 35, column_width.d * 100),
                              Quotient(column_width.n * 65, column_width.d * 100)>>]

\* PDFGenerator._count_section_items(subsections)
RECURSIVE _count_section_items(_)
_count_section_items(subsections) ==
    IF subsections = <<>> THEN 0
    ELSE Len(Head(subsections).hotkeys) + _count_section_items(Tail(subsections))

\* The loop of _estimate_section_height over the subsections.
RECURSIVE SubsectionsHeight(_, _)
SubsectionsHeight(subsections, cfg) ==
    IF subsections = <<>> THEN 0
    ELSE LET sub == Head(subsections)
         IN  (IF sub.name # "General" THEN cfg.font_size + 8 ELSE 0)
               + Len(sub.hotkeys) * cfg.row_height
               + cfg.subsection_spacing
               + SubsectionsHeight(Tail(subsections), cfg)

\* An estimate that counts a header for "General" too.
RECURSIVE SubsectionsHeight_every_header(_, _)
SubsectionsHeight_every_header(subsections, cfg) ==
    IF subsections = <<>> THEN 0
    ELSE (cfg.font_size + 8) + Len(Head(subsections).hotkeys) * cfg.row_height
           + cfg.subsection_spacing
           + SubsectionsHeight_every_header(Tail(subsections), cfg)

_estimate_section_height_every_header(subsections, cfg) ==
    (cfg.header_font_size + 15) + SubsectionsHeight_every_header(subsections, cfg)
      + cfg.section_spacing

\* PDFGenerator._estimate_section_height(subsections), in points.
_estimate_section_height(subsections, cfg) ==
    (cfg.header_font_size + 15) + SubsectionsHeight(subsections, cfg)
      + cfg.section_spacing

\* The content of a subsection with a table of its first hotkey only.
SubsectionContent_first_row(sub, cfg) ==
    LET table == _create_hotkey_table(<<Head(sub.hotkeys)>>, cfg)
    IN  (IF sub.name # "General"
         THEN <<Paragraph(sub.name, "subsection_header")>> ELSE <<>>)
        \o <<table, Spacer(1, cfg.subsection_spacing)>>

\* The flowables one subsection adds: its header unless it is "General",
\* then its table and a spacer if there is a table.
SubsectionContent(sub, cfg) ==
    LET table == _create_hotkey_table(sub.hotkeys, cfg)
    IN  (IF sub.name # "General"
         THEN <<Paragraph(sub.name, "subsection_header")>> ELSE <<>>)
        \o (IF table # <<>>
            THEN <<table, Spacer(1, cfg.subsection_spacing)>> ELSE <<>>)

RECURSIVE AllSubsectionContent(_, _)
AllSubsectionContent(subsections, cfg) ==
    IF subsections = <<>> THEN <<>>
    ELSE SubsectionContent(Head(subsections), cfg)
           \o AllSubsectionContent(Tail(subsections), cfg)

section_header_space_after == 8

\* section_content of _build_content: the spacer before the section (none
\* for the first), the header, its spacer, then every subsection.
SectionContent(section, spacing, cfg) ==
    spacing
      \o <<Paragraph(upper(section.name), "section_header"),
           Spacer(1, section_header_space_after)>>
      \o AllSubsectionContent(section.subsections, cfg)

\* The blocks of the subsections from the i-th on, of the branch that
\* breaks a large section by subsections: the first carries the header.
RECURSIVE BySubsection(_, _, _)
BySubsection(section, i, cfg) ==
    IF i > Len(section.subsections) THEN <<>>
    ELSE LET subsection_content ==
                 (IF i = 1
                  THEN <<Paragraph(upper(section.name), "section_header"),
                         Spacer(1, section_header_space_after)>>
                  ELSE <<>>)
                 \o SubsectionContent(section.subsections[i], cfg)
         IN  (IF Len(subsection_content) > 0
              THEN <<KeepTogether(subsection_content)>> ELSE <<>>)
             \o BySubsection(section, i + 1, cfg)

\* A split that leaves the section header in a block of its own.
BreakBySubsections_header_alone(section, cfg) ==
    <<KeepTogether(<<Paragraph(upper(section.name), "section_header"),
                     Spacer(1, section_header_space_after)>>)>>
      \o [i \in 1..Len(section.subsections) |->
            KeepTogether(SubsectionContent(section.subsections[i], cfg))]

BreakBySubsections(section, cfg) == BySubsection(section, 1, cfg)

\* A medium branch that leaves the section header in a block of its own.
HeaderWithFirst_header_alone(section, spacing, i, cfg) ==
    <<KeepTogether(spacing \o <<Paragraph(upper(section.name), "section_header"),
                                Spacer(1, section_header_space_after)>>)>>
      \o [j \in 1..Len(section.subsections) |->
            KeepTogether(SubsectionContent(section.subsections[j], cfg))]

\* The blocks of the subsections from the i-th on, of the branch that keeps
\* the header with the first subsection.
RECURSIVE HeaderWithFirst(_, _, _, _)
HeaderWithFirst(section, spacing, i, cfg) ==
    IF i > Len(section.subsections) THEN <<>>
    ELSE LET subsection_content == SubsectionContent(section.subsections[i], cfg)
             header_with_first ==
                 IF i = 1
                 THEN spacing
                        \o <<Paragraph(upper(section.name), "section_header"),
                             Spacer(1, section_header_space_after)>>
                 ELSE <<>>
         IN  (IF Len(header_with_first) > 0
              THEN <<KeepTogether(header_with_first \o subsection_content)>>
              ELSE IF Len(subsection_content) > 0
              THEN <<KeepTogether(subsection_content)>>
              ELSE <<>>)
             \o HeaderWithFirst(section, spacing, i + 1, cfg)

\* The size branches with the thresholds taken inclusively.
BySize_inclusive(section, spacing, cfg) ==
    LET section_height == _estimate_section_height(section.subsections, cfg)
    IN  IF section_height >= 200 THEN BreakBySubsections(section, cfg)
        ELSE IF section_height <= 100
        THEN <<KeepTogether(SectionContent(section, spacing, cfg))>>
        ELSE HeaderWithFirst(section, spacing, 1, cfg)

\* The size branches under section_no_awkward_breaks, for a section the
\* fewer-than-3-items rule leaves alone.
BySize(section, spacing, cfg) ==
    LET section_height == _estimate_section_height(section.subsections, cfg)
    IN  IF section_height > 200 THEN BreakBySubsections(section, cfg)
        ELSE IF section_height < 100
        THEN <<KeepTogether(SectionContent(section, spacing, cfg))>>
        ELSE HeaderWithFirst(section, spacing, 1, cfg)

\* The split of a large section by subsections in the branch without
\* awkward-break prevention, from the i-th subsection on.
RECURSIVE BySubsection_original(_, _, _)
BySubsection_original(section, i, cfg) ==
    IF i > Len(section.subsections) THEN <<>>
    ELSE LET subsection_content ==
                 (IF i = 1
                  THEN <<Paragraph(upper(section.name), "section_header"),
                         Spacer(1, section_header_space_after)>>
                  ELSE <<>>)
                 \o SubsectionContent(section.subsections[i], cfg)
         IN  (IF Len(subsection_content) > 0
              THEN <<KeepTogether(subsection_content)>> ELSE <<>>)
             \o BySubsection_original(section, i + 1, cfg)

\* The medium branch without awkward-break prevention, from the i-th
\* subsection on: the header is kept with the first subsection.
RECURSIVE HeaderWithFirst_original(_, _, _, _)
HeaderWithFirst_original(section, spacing, i, cfg) ==
    IF i > Len(section.subsections) THEN <<>>
    ELSE LET subsection_content == SubsectionContent(section.subsections[i], cfg)
             header_with_first ==
                 IF i = 1
                 THEN spacing
                        \o <<Paragraph(upper(section.name), "section_header"),
                             Spacer(1, section_header_space_after)>>
                 ELSE <<>>
         IN  (IF Len(header_with_first) > 0
              THEN <<KeepTogether(header_with_first \o subsection_content)>>
              ELSE IF Len(subsection_content) > 0
              THEN <<KeepTogether(subsection_content)>>
              ELSE <<>>)
             \o HeaderWithFirst_original(section, spacing, i + 1, cfg)

\* The branch without awkward-break prevention, with no medium case.
BySize_original_no_medium(section, spacing, cfg) ==
    LET section_height == _estimate_section_height(section.subsections, cfg)
    IN  IF section_height > 200 THEN BySubsection_original(section, 1, cfg)
        ELSE <<KeepTogether(SectionContent(section, spacing, cfg))>>

\* The size branches with section_no_awkward_breaks false ("original
\* logic").
BySize_original(section, spacing, cfg) ==
    LET section_height == _estimate_section_height(section.subsections, cfg)
    IN  IF section_height > 200 THEN BySubsection_original(section, 1, cfg)
        ELSE IF section_height < 100
        THEN <<KeepTogether(SectionContent(section, spacing, cfg))>>
        ELSE HeaderWithFirst_original(section, spacing, 1, cfg)

\* A branch order that tests the height before the number of hotkeys.
SectionItems_size_first(section, spacing, cfg) ==
    LET section_height == _estimate_section_height(section.subsections, cfg)
    IN  IF section_height > 200 THEN BreakBySubsections(section, cfg)
        ELSE IF cfg.section_no_awkward_breaks
                  /\ _count_section_items(section.subsections) < 3
        THEN <<KeepTogether(SectionContent(section, spacing, cfg))>>
        ELSE BySize(section, spacing, cfg)

\* What one iteration of the section loop of _build_content appends to
\* section_items; spacing is <<section_spacing_element>>, or <<>> for the
\* first section.
SectionItems(section, spacing, cfg) ==
    LET total_items == _count_section_items(section.subsections)
    IN  IF cfg.section_no_awkward_breaks
        THEN IF total_items < 3
             THEN <<KeepTogether(SectionContent(section, spacing, cfg))>>
             ELSE BySize(section, spacing, cfg)
        ELSE BySize_original(section, spacing, cfg)

\* The section loop with the inter-section spacing before every section.
RECURSIVE SectionLoop_spacer_always(_, _, _)
SectionLoop_spacer_always(sections, i, cfg) ==
    IF i > Len(sections) THEN <<>>
    ELSE LET total_frame_padding_vertical == FRAME_PADDING_TOP + FRAME_PADDING_BOTTOM
             spacing ==
                 IF cfg.section_align_flush
                 THEN <<ConditionalSpacer(cfg.section_spacing,
                                          _get_actual_frame_height(cfg),
                                          total_frame_padding_vertical)>>
                 ELSE <<Spacer(1, cfg.section_spacing)>>
         IN  SectionItems(sections[i], spacing, cfg)
                 \o SectionLoop_spacer_always(sections, i + 1, cfg)

\* The section loop of _build_content from the i-th section on.
RECURSIVE SectionLoop(_, _, _)
SectionLoop(sections, i, cfg) ==
    IF i > Len(sections) THEN <<>>
    ELSE LET first_section == (i = 1)
             total_frame_padding_vertical == FRAME_PADDING_TOP + FRAME_PADDING_BOTTOM
             spacing ==
                 IF first_section THEN <<>>
                 ELSE IF cfg.section_align_flush
                 THEN <<ConditionalSpacer(cfg.section_spacing,
                                          _get_actual_frame_height(cfg),
                                          total_frame_padding_vertical)>>
                 ELSE <<Spacer(1, cfg.section_spacing)>>
         IN  SectionItems(sections[i], spacing, cfg) \o SectionLoop(sections, i + 1, cfg)

\* PDFGenerator._build_content(): the title, its spacer, then the blocks
\* of every section.  The title of the document is that of its
\* configuration, as CheatSheet.__post_init__ makes it.
_build_content(hs, cfg) ==
    <<Paragraph(cfg.title, "title"), Spacer(1, 12)>>
      \o SectionLoop(get_sections(hs), 1, cfg)

\* ------------------------------------------------------------------ inputs

\* Strings a Hotkey is constructed from; " " is not empty.
KeyArgs == {"", "Ctrl+S", " "}
DescriptionArgs == {"", "Save"}
SectionArgs == {"", "Editing", "General"}
SubsectionArgs == {"", "General", "Files"}

\* The hotkeys of the data-model specification: two sections that differ
\* in case only, and a subsection that is literally "General".
ModelHotkeys ==
    {[key |-> k, description |-> "Save", section |-> s, subsection |-> u] :
        k \in {"Ctrl+S", "Ctrl+<"}, s \in {"Editing", "editing"},
        u \in SubsectionArgs}

\* The hotkeys of the layout specifications: the i-th hotkey of the list has
\* the i-th key; one key holds a character that escape() rewrites.
LayoutKeys == <<"Ctrl+A", "Ctrl+<", "Ctrl+C", "Ctrl+D", "Ctrl+E", "Ctrl+F">>
LayoutSections == {"Editing", "editing"}
LayoutSubsections == {"", "Files"}

LayoutHotkey(i, section, subsection) ==
    [key |-> LayoutKeys[((i - 1) % Len(LayoutKeys)) + 1], description |-> "Save",
     section |-> section, subsection |-> subsection]

\* Configurations of the page estimate: a margin of 396 leaves a letter
\* page no usable height, one of 380 leaves 32 points.
PagesConfigs ==
    {[DefaultConfig EXCEPT !.margin = m, !.columns = c, !.fill_top_half = f] :
        m \in {25, 380, 396}, c \in {1, 5}, f \in BOOLEAN}

\* Configurations of the Flow Packer.  With a row height of 11 every
\* section of the model is below 100 or exactly 100; with 48 and 100 there
\* are sections at 100, between, at 200 and above, with fewer than 3
\* hotkeys and with more.
PackerConfigs ==
    {[DefaultConfig EXCEPT !.row_height = r, !.section_no_awkward_breaks = b,
                           !.section_align_flush = a] :
        r \in {11, 48, 100}, b \in BOOLEAN, a \in BOOLEAN}

\* Configurations of the conditional spacer: frames of 742 points, and of
\* 358.5 points in top-half mode.
SpacerConfigs ==
    {[DefaultConfig EXCEPT !.fill_top_half = f, !.section_align_flush = a] :
        f \in BOOLEAN, a \in BOOLEAN}

\* Widths the renderer offers a flowable, in 1/Unit point.
AvailWidths == {94 * Unit, 136 * Unit}

\* Heights the renderer offers a flowable, in 1/Unit point: none, the two
\* either side of 95% of 346.5 points (329.175), a whole top-half frame,
\* the one just under 95% of 730 points (693.5), 693.5 itself, a whole frame.
AvailHeights ==
    {0, 329 * Unit + 44, 329 * Unit + 45, 346 * Unit + 127,
     693 * Unit + 126, 693 * Unit + 127, 730 * Unit}

\* Configurations of the frame planner, as a configuration file gives them.
FramesConfigs ==
    {[DefaultConfig EXCEPT !.margin = m, !.columns = c, !.paper_size = p] :
        m \in {25, 50}, c \in {1, 3, 5}, p \in {"letter", "A4"}}

\* Configuration mappings: every subset of these keys, each with one value.
DictValues ==
    [columns |-> 3, fill_top_half |-> TRUE, title |-> "Vim", colour |-> "red",
     from_dict |-> 1, __init__ |-> 0]

Dicts == {[k \in K |-> DictValues[k]] : K \in SUBSET DOMAIN DictValues}

\* ----------------------------------------------------------------- actions

\* Hotkey(...) is called; nothing is stored.
NewHotkey ==
    \E k \in KeyArgs, d \in DescriptionArgs, s \in SectionArgs, u \in SubsectionArgs :
        /\ ret' = Hotkey(k, d, s, u)
        /\ args' = [key |-> k, description |-> d, section |-> s, subsection |-> u]
        /\ last' = "Hotkey"
        /\ UNCHANGED <<hotkeys, config>>

\* CheatSheetConfig.from_dict(data) is called; it builds a new object.
FromDict ==
    \E data \in Dicts :
        /\ ret' = from_dict(data)
        /\ args' = data
        /\ last' = "from_dict"
        /\ UNCHANGED <<hotkeys, config>>

\* cheat_sheet.hotkeys.append(h)
AppendHotkey(h, bound) ==
    /\ Len(hotkeys) < bound
    /\ hotkeys' = Append(hotkeys, h)
    /\ last' = "append"
    /\ args' = h
    /\ ret' = None
    /\ UNCHANGED config

\* del cheat_sheet.hotkeys[i]
RemoveHotkey ==
    \E i \in 1..Len(hotkeys) :
        /\ hotkeys' = SubSeq(hotkeys, 1, i - 1) \o SubSeq(hotkeys, i + 1, Len(hotkeys))
        /\ last' = "remove"
        /\ args' = i
        /\ ret' = None
        /\ UNCHANGED config

GetSections ==
    /\ ret' = Returned(get_sections(hotkeys))
    /\ args' = <<>>
    /\ last' = "get_sections"
    /\ UNCHANGED <<hotkeys, config>>

\* cli.main: --paper-size overrides the configuration.
OverridePaperSize ==
    \E paper_size \in {"letter", "a4"} :
        /\ config' = [config EXCEPT !.paper_size = lower(paper_size)]
        /\ last' = "override"
        /\ args' = paper_size
        /\ ret' = None
        /\ UNCHANGED hotkeys

\* cli.main: --orientation overrides the configuration.
OverrideOrientation ==
    \E orientation \in {"portrait", "landscape"} :
        /\ config' = [config EXCEPT !.orientation = lower(orientation)]
        /\ last' = "override"
        /\ args' = orientation
        /\ ret' = None
        /\ UNCHANGED hotkeys

\* cli.main: --fill-top-half sets the flag.
OverrideFillTopHalf ==
    /\ config' = [config EXCEPT !.fill_top_half = TRUE]
    /\ last' = "override"
    /\ args' = "fill_top_half"
    /\ ret' = None
    /\ UNCHANGED hotkeys

EstimatePages ==
    /\ ret' = estimate_pages(hotkeys, config)
    /\ args' = <<>>
    /\ last' = "estimate_pages"
    /\ UNCHANGED <<hotkeys, config>>

GetActualFrameHeight ==
    /\ ret' = Returned(_get_actual_frame_height(config))
    /\ args' = <<>>
    /\ last' = "_get_actual_frame_height"
    /\ UNCHANGED <<hotkeys, config>>

CreateMulticolumnDoc ==
    /\ ret' = _create_multicolumn_doc(config)
    /\ args' = <<>>
    /\ last' = "_create_multicolumn_doc"
    /\ UNCHANGED <<hotkeys, config>>

\* _estimate_section_height is called on a section of the Section Index.
EstimateSectionHeight ==
    \E section \in {get_sections(hotkeys)[i] : i \in 1..Len(get_sections(hotkeys))} :
        /\ ret' = Returned(_estimate_section_height(section.subsections, config))
        /\ args' = section.subsections
        /\ last' = "_estimate_section_height"
        /\ UNCHANGED <<hotkeys, config>>

BuildContent ==
    /\ ret' = Returned(_build_content(hotkeys, config))
    /\ args' = <<>>
    /\ last' = "_build_content"
    /\ UNCHANGED <<hotkeys, config>>

\* The conditional spacers of a flowable list, blocks opened.
RECURSIVE ConditionalSpacers(_)
ConditionalSpacers(content) ==
    IF content = <<>> THEN {}
    ELSE LET f == Head(content)
         IN  (IF f.type = "ConditionalSpacer" THEN {f}
              ELSE IF f.type = "KeepTogether" THEN ConditionalSpacers(f.flowables)
              ELSE {})
             \cup ConditionalSpacers(Tail(content))

\* The renderer wraps a conditional spacer of the document's content.
Wrap ==
    \E self \in ConditionalSpacers(_build_content(hotkeys, config)),
       availWidth \in AvailWidths, availHeight \in AvailHeights :
        /\ ret' = Returned(ConditionalSpacer_wrap(self, availWidth, availHeight))
        /\ args' = [availWidth |-> availWidth, availHeight |-> availHeight]
        /\ last' = "wrap"
        /\ UNCHANGED <<hotkeys, config>>

\* ------------------------------------------------ data-model specifications

Init ==
    /\ hotkeys = <<>>
    /\ config = DefaultConfig
    /\ last = "init"
    /\ args = <<>>
    /\ ret = None

\* The Section Index of a document whose hotkey list changes.
Next ==
    \/ \E h \in ModelHotkeys : AppendHotkey(h, MaxListLen)
    \/ RemoveHotkey
    \/ GetSections

Spec == Init /\ [][Next]_vars

\* The constructors of the data model.
NextModel ==
    \/ NewHotkey
    \/ FromDict

SpecModel == Init /\ [][NextModel]_vars

\* --------------------------------------------------- layout specifications

\* The parser appends the next hotkey of the file.
AppendLayoutHotkey ==
    \E section \in LayoutSections, subsection \in LayoutSubsections :
        AppendHotkey(LayoutHotkey(Len(hotkeys) + 1, section, subsection), MaxHotkeys)

InitPages ==
    /\ hotkeys = <<>>
    /\ config \in PagesConfigs
    /\ last = "init"
    /\ args = <<>>
    /\ ret = None

NextPages ==
    \/ AppendLayoutHotkey
    \/ EstimatePages

\* The page estimate of a document as its hotkeys are loaded.
SpecPages == InitPages /\ [][NextPages]_vars

InitPacker ==
    /\ hotkeys = <<>>
    /\ config \in PackerConfigs
    /\ last = "init"
    /\ args = <<>>
    /\ ret = None

NextPacker ==
    \/ AppendLayoutHotkey
    \/ EstimateSectionHeight
    \/ BuildContent

\* The Flow Packer on a document as its hotkeys are loaded.
SpecPacker == InitPacker /\ [][NextPacker]_vars

InitFrames ==
    /\ hotkeys = <<>>
    /\ config \in FramesConfigs
    /\ last = "init"
    /\ args = <<>>
    /\ ret = None

NextFrames ==
    \/ OverridePaperSize
    \/ OverrideOrientation
    \/ OverrideFillTopHalf
    \/ GetActualFrameHeight
    \/ CreateMulticolumnDoc

\* The frame planner under the command line's overrides.
SpecFrames == InitFrames /\ [][NextFrames]_vars

InitSpacer ==
    /\ hotkeys = <<>>
    /\ config \in SpacerConfigs
    /\ last = "init"
    /\ args = <<>>
    /\ ret = None

\* The parser appends the next hotkey of a short file.
AppendSpacerHotkey ==
    \E section \in LayoutSections, subsection \in LayoutSubsections :
        AppendHotkey(LayoutHotkey(Len(hotkeys) + 1, section, subsection),
                     MaxSpacerHotkeys)

NextSpacer ==
    \/ AppendSpacerHotkey
    \/ EstimatePages
    \/ BuildContent
    \/ Wrap

\* The command line's run on a short document: the page estimate, the
\* content, and the renderer on the inter-section spacers.
SpecSpacer == InitSpacer /\ [][NextSpacer]_vars

\* ------------------------------------------------------ data-model claims

\* Positions of hs whose hotkey belongs to section sec.
PositionsOfSection(hs, sec) == {p \in 1..Len(hs) : hs[p].section = sec}

\* Positions of hs whose hotkey belongs to bucket (sec, sub), a hotkey with
\* an empty subsection counting as one of "General".
PositionsOfBucket(hs, sec, sub) ==
    {p \in 1..Len(hs) :
        /\ hs[p].section = sec
        /\ (IF hs[p].subsection = "" THEN "General" ELSE hs[p].subsection) = sub}

Least(S) == CHOOSE p \in S : \A q \in S : p <= q

\* index is the Section Index of the hotkey list hs.
IsSectionIndex(index, hs) ==
    /\ \A i, k \in 1..Len(index) : index[i].name = index[k].name => i = k
    /\ \A p \in 1..Len(hs) : \E i \in 1..Len(index) : index[i].name = hs[p].section
    /\ \A i \in 1..Len(index) :
        LET sec == index[i].name
            subs == index[i].subsections
        IN  /\ PositionsOfSection(hs, sec) # {}
            /\ \A k \in 1..Len(index) :
                 i < k => Least(PositionsOfSection(hs, sec))
                            < Least(PositionsOfSection(hs, index[k].name))
            /\ \A j, l \in 1..Len(subs) : subs[j].name = subs[l].name => j = l
            /\ \A p \in PositionsOfSection(hs, sec) :
                 \E j \in 1..Len(subs) : p \in PositionsOfBucket(hs, sec, subs[j].name)
            /\ \A j \in 1..Len(subs) :
                 LET at == PositionsOfBucket(hs, sec, subs[j].name)
                 IN  /\ at # {}
                     /\ subs[j].hotkeys =
                          SelectSeq(hs, LAMBDA h :
                              /\ h.section = sec
                              /\ (IF h.subsection = "" THEN "General"
                                  ELSE h.subsection) = subs[j].name)
                     /\ \A l \in 1..Len(subs) :
                          j < l => Least(at)
                                    < Least(PositionsOfBucket(hs, sec, subs[l].name))

\* C1: whatever was added to or removed from the hotkey list before, the
\* value get_sections returns is the Section Index of the current list:
\* every hotkey is in exactly one (section, subsection) bucket, sections
\* and the subsections of a section are in first-seen order, a bucket keeps
\* the list order, and an empty subsection is the bucket "General".
C1_SectionIndex ==
    last = "get_sections" => ret.ok /\ IsSectionIndex(ret.val, hotkeys)

\* A call on a three-hotkey list: section "Editing" with subsections
\* "Files" then "General" (from an empty subsection), then "editing".
C1_Witness ==
    /\ last = "get_sections"
    /\ Len(hotkeys) = 3
    /\ Len(ret.val) = 2
    /\ Len(ret.val[1].subsections) = 2
    /\ ret.val[1].subsections[1].name = "Files"
    /\ ret.val[1].subsections[2].name = "General"
    /\ ret.val[1].subsections[2].hotkeys[1].subsection = ""

\* C8: Hotkey(...) raises ValueError exactly when key, description or
\* section is empty; otherwise it returns a Hotkey holding the four
\* arguments as given, an empty subsection included.
C8_HotkeyValidation ==
    last = "Hotkey" =>
        IF args.key = "" \/ args.description = "" \/ args.section = ""
        THEN ~ret.ok /\ ret.err = "ValueError"
        ELSE ret.ok /\ ret.val = args

\* A Hotkey built with an empty subsection.
C8_Witness ==
    /\ last = "Hotkey"
    /\ ret.ok
    /\ args.subsection = ""
    /\ ret.val.subsection = ""

\* C9: from_dict returns, for every mapping, the configuration holding the
\* given value for each key that is a field and the default for every
\* other field; every other key is ignored.
C9_FromDictIgnoresUnknown ==
    last = "from_dict" =>
        /\ ret.ok
        /\ ret.val = [f \in FieldNames |->
                        IF f \in DOMAIN args THEN args[f] ELSE DefaultConfig[f]]

\* ------------------------------------------------------ Flow Packer claims

\* A block that holds a section header.
HasSectionHeader(block) ==
    /\ block.type = "KeepTogether"
    /\ \E f \in 1..Len(block.flowables) :
         /\ block.flowables[f].type = "Paragraph"
         /\ block.flowables[f].style = "section_header"

\* Positions in content of the blocks that hold a section header.
HeaderBlocks(content) ==
    {b \in 1..Len(content) : HasSectionHeader(content[b])}

\* Position of the block holding the k-th section header of content.
SectionStart(content, k) ==
    CHOOSE b \in HeaderBlocks(content) :
        Cardinality({x \in HeaderBlocks(content) : x <= b}) = k

\* The blocks emitted for the k-th section: from the block holding its
\* header up to the block holding the next header.
BlocksOfSection(content, k) ==
    LET from == SectionStart(content, k)
        to == IF k = Cardinality(HeaderBlocks(content)) THEN Len(content)
              ELSE SectionStart(content, k + 1) - 1
    IN  SubSeq(content, from, to)

\* content is the title, its spacer and then atomic blocks only, with one
\* section header per section of the index, the first in the first block.
WellSectioned(content, index) ==
    /\ Len(content) >= 2
    /\ content[1].type = "Paragraph"
    /\ content[2].type = "Spacer"
    /\ \A b \in 3..Len(content) : content[b].type = "KeepTogether"
    /\ Cardinality(HeaderBlocks(content)) = Len(index)
    /\ Len(index) > 0 => 3 \in HeaderBlocks(content)
    /\ \A k \in 1..Len(index) :
         \E f \in 1..Len(content[SectionStart(content, k)].flowables) :
            content[SectionStart(content, k)].flowables[f]
                = Paragraph(upper(index[k].name), "section_header")

\* Number of hotkeys of the list hs in section sec.
TotalItems(hs, sec) == Cardinality(PositionsOfSection(hs, sec))

\* C2: with section_no_awkward_breaks true, a section with fewer than 3
\* hotkeys is emitted as exactly one atomic block, whatever its estimated
\* height and its number of subsections.
C2_TinySectionAtomic ==
    (last = "_build_content" /\ config.section_no_awkward_breaks) =>
        LET index == get_sections(hotkeys)
        IN  /\ WellSectioned(ret.val, index)
            /\ \A k \in 1..Len(index) :
                 TotalItems(hotkeys, index[k].name) < 3 =>
                    Len(BlocksOfSection(ret.val, k)) = 1

\* A section of two hotkeys in two subsections, estimated above 200, in
\* one block.
C2_Witness ==
    /\ last = "_build_content"
    /\ config.section_no_awkward_breaks
    /\ \E k \in 1..Len(get_sections(hotkeys)) :
         /\ TotalItems(hotkeys, get_sections(hotkeys)[k].name) = 2
         /\ Len(get_sections(hotkeys)[k].subsections) = 2
         /\ _estimate_section_height(get_sections(hotkeys)[k].subsections, config) > 200
         /\ Len(BlocksOfSection(ret.val, k)) = 1

\* C3 as claimed: under either setting of section_no_awkward_breaks, a
\* section estimated above 200 is emitted as one atomic block per
\* subsection, the first holding the section header.
C3_LargeSectionSplit ==
    last = "_build_content" =>
        LET index == get_sections(hotkeys)
        IN  /\ WellSectioned(ret.val, index)
            /\ \A k \in 1..Len(index) :
                 _estimate_section_height(index[k].subsections, config) > 200 =>
                    /\ Len(BlocksOfSection(ret.val, k)) = Len(index[k].subsections)
                    /\ HasSectionHeader(BlocksOfSection(ret.val, k)[1])

\* C3 amended: a section estimated above 200 that the fewer-than-3-hotkeys
\* rule does not force into one block (section_no_awkward_breaks is false
\* or the section has at least 3 hotkeys) is emitted as one atomic block
\* per subsection, the first holding the section header.
C3_LargeSectionSplitUnlessTiny ==
    last = "_build_content" =>
        LET index == get_sections(hotkeys)
        IN  /\ WellSectioned(ret.val, index)
            /\ \A k \in 1..Len(index) :
                 (/\ _estimate_section_height(index[k].subsections, config) > 200
                  /\ (~config.section_no_awkward_breaks
                        \/ TotalItems(hotkeys, index[k].name) >= 3)) =>
                    /\ Len(BlocksOfSection(ret.val, k)) = Len(index[k].subsections)
                    /\ HasSectionHeader(BlocksOfSection(ret.val, k)[1])
                    /\ \A b \in 2..Len(index[k].subsections) :
                         ~HasSectionHeader(BlocksOfSection(ret.val, k)[b])

\* A second section of at least 3 hotkeys in two subsections, estimated
\* above 200, in two blocks, with section_no_awkward_breaks true.
C3_Witness ==
    /\ last = "_build_content"
    /\ config.section_no_awkward_breaks
    /\ Len(get_sections(hotkeys)) = 2
    /\ TotalItems(hotkeys, get_sections(hotkeys)[2].name) >= 3
    /\ Len(get_sections(hotkeys)[2].subsections) = 2
    /\ _estimate_section_height(get_sections(hotkeys)[2].subsections, config) > 200
    /\ Len(BlocksOfSection(ret.val, 2)) = 2

\* C7: _estimate_section_height returns (header_font_size + 15), plus
\* font_size + 8 for every subsection not named "General", plus row_height
\* for every hotkey, plus subsection_spacing for every subsection, plus
\* section_spacing: a value of its argument and the configuration alone.
C7_SectionHeight ==
    last = "_estimate_section_height" =>
        LET named == {j \in 1..Len(args) : args[j].name # "General"}
            rows == {<<j, p>> \in (1..Len(args)) \X (1..Len(hotkeys)) :
                        p <= Len(args[j].hotkeys)}
        IN  /\ ret.ok
            /\ ret.val = (config.header_font_size + 15)
                           + Cardinality(named) * (config.font_size + 8)
                           + Cardinality(rows) * config.row_height
                           + Len(args) * config.subsection_spacing
                           + config.section_spacing

\* The estimate of a section with a "General" and a named subsection.
C7_Witness ==
    /\ last = "_estimate_section_height"
    /\ Len(args) = 2
    /\ args[1].name = "General"
    /\ args[2].name # "General"
    /\ Len(args[2].hotkeys) >= 2

\* ---------------------------------------------------- page-estimate claims

\* C4: estimate_pages returns a whole number >= 1 for every document and
\* configuration; it never raises.
C4_PagesAtLeastOne ==
    last = "estimate_pages" => ret.ok /\ ret.val \in Nat /\ ret.val >= 1

\* The list hs without its last hotkey.
Front(hs) == SubSeq(hs, 1, Len(hs) - 1)

\* C5: with the configuration fixed, estimate_pages of a list with one more
\* hotkey appended, whether it joins a bucket or opens a section or a
\* subsection, is no less than estimate_pages of the list before.
C5_PagesMonotone ==
    (last = "estimate_pages" /\ ret.ok /\ hotkeys # <<>>) =>
        LET before == estimate_pages(Front(hotkeys), config)
        IN  before.ok /\ ret.val >= before.val

\* The estimate grew when a hotkey opening a new section was appended.
C5_Witness ==
    /\ last = "estimate_pages"
    /\ ret.ok
    /\ Len(hotkeys) >= 2
    /\ \A p \in 1..(Len(hotkeys) - 1) :
         hotkeys[p].section # hotkeys[Len(hotkeys)].section
    /\ ret.val > estimate_pages(Front(hotkeys), config).val

\* n/d <= k, for d # 0.
QuotientAtMost(n, d, k) == IF d > 0 THEN n <= k * d ELSE n >= k * d

\* T of the claim, in points, from the hotkey list alone.
DocumentHeight(hs, cfg) ==
    LET num_sections == Cardinality({hs[p].section : p \in 1..Len(hs)})
        num_subsections_total ==
            Cardinality({<<hs[p].section,
                           IF hs[p].subsection = "" THEN "General"
                           ELSE hs[p].subsection>> : p \in 1..Len(hs)})
    IN  30 + 15 * num_sections + 12 * num_subsections_total
          + Len(hs) * cfg.row_height + num_sections * cfg.section_spacing

\* C6: when estimate_pages returns, it returns max(1, ceil(T / columns /
\* usable_height)) with usable_height = page height - 2 * margin, and the
\* same with fill_top_half set the other way.
C6_PagesFormula ==
    (last = "estimate_pages" /\ ret.ok) =>
        LET n == DocumentHeight(hotkeys, config) * Unit
            d == config.columns
                   * (_get_page_size(config)[2] - 2 * config.margin * Unit)
            other == [config EXCEPT !.fill_top_half = ~config.fill_top_half]
        IN  /\ ret.val >= 1
            /\ QuotientAtMost(n, d, ret.val)
            /\ ret.val > 1 => ~QuotientAtMost(n, d, ret.val - 1)
            /\ estimate_pages(hotkeys, other) = ret

\* An estimate of more than one page in the two-row mode.
C6_Witness ==
    /\ last = "estimate_pages"
    /\ ret.ok
    /\ ret.val >= 2
    /\ config.fill_top_half
    /\ Len(hotkeys) >= 2

\* --------------------------------------------------- frame-planner claims

\* C10: _create_multicolumn_doc makes `columns` frames of height
\* page height - 2 * margin when fill_top_half is false, and 2 * columns
\* frames of half of (that height - margin) when it is true: the top row
\* left to right, then the bottom row left to right; in both modes the
\* height is the one _get_actual_frame_height returns.
C10_Frames ==
    last = "_create_multicolumn_doc" =>
        LET frames == ret.val
            c == config.columns
            usable_height == _get_page_size(config)[2] - 2 * config.margin * Unit
        IN  /\ ret.ok
            /\ \A k \in 1..Len(frames) :
                 frames[k].height = _get_actual_frame_height(config)
            /\ ~config.fill_top_half =>
                 /\ Len(frames) = c
                 /\ \A k \in 1..Len(frames) : frames[k].height = usable_height
            /\ config.fill_top_half =>
                 /\ Len(frames) = 2 * c
                 /\ \A k \in 1..Len(frames) :
                      2 * frames[k].height = usable_height - config.margin * Unit
                 /\ \A k \in 1..c :
                      /\ frames[k].y > frames[c + k].y
                      /\ frames[k].y = frames[1].y
                      /\ frames[c + k].y = frames[c + 1].y
                      /\ frames[k].x = frames[c + k].x
                 /\ \A k \in 1..(c - 1) :
                      /\ frames[k].x.d = frames[k + 1].x.d
                      /\ frames[k].x.d > 0
                      /\ frames[k].x.n < frames[k + 1].x.n

\* The six frames of a letter portrait page with three columns in the
\* two-row mode.
C10_Witness ==
    /\ last = "_create_multicolumn_doc"
    /\ config.fill_top_half
    /\ config.columns = 3
    /\ lower(config.paper_size) = "letter"
    /\ config.orientation = "portrait"
    /\ Len(ret.val) = 6


\* ------------------------------------------------ conditional-spacer claim

\* C11: wrap of an inter-section conditional spacer reports the available
\* width, and height 0 exactly when the available height is at least 95% of
\* (frame height - 12), 12 being the frame's top plus bottom padding; in
\* every other case it reports the configured section_spacing.
C11_ConditionalSpacerWrap ==
    last = "wrap" =>
        LET at_top == 100 * args.availHeight >=
                          95 * (_get_actual_frame_height(config)
                                - (FRAME_PADDING_TOP + FRAME_PADDING_BOTTOM) * Unit)
        IN  /\ ret.ok
            /\ ret.val[1] = args.availWidth
            /\ at_top => ret.val[2] = 0
            /\ ~at_top => ret.val[2] = config.section_spacing

\* A spacer in a full frame is offered exactly 95% of the frame's inner
\* height (693.5 of 730 points) and collapses.
C11_Witness ==
    /\ last = "wrap"
    /\ ~config.fill_top_half
    /\ args.availHeight = 693 * Unit + 127
    /\ ret.val[2] = 0


\* ------------------------------------------------------- scenario claim

\* The document of the scenario: two hotkeys of section "Editing" without a
\* subsection, under the default configuration.
EditingScenario ==
    /\ config = DefaultConfig
    /\ Len(hotkeys) = 2
    /\ \A p \in 1..2 : hotkeys[p].section = "Editing" /\ hotkeys[p].subsection = ""

\* C12: for one section "Editing" of 2 hotkeys without a subsection and the
\* default configuration, _build_content returns the title block (the title
\* paragraph with its 12-point spacer) and one atomic section block, that
\* block has no pre-section spacer (it opens with the section header and
\* holds no conditional spacer), and estimate_pages returns 1.
C12_EditingScenario ==
    EditingScenario =>
        /\ last = "_build_content" =>
              /\ ret.ok
              /\ Len(ret.val) = 3
              /\ ret.val[1] = Paragraph(config.title, "title")
              /\ ret.val[2] = Spacer(1, 12)
              /\ ret.val[3].type = "KeepTogether"
              /\ LET block == ret.val[3].flowables
                 IN  /\ block[1] = Paragraph("EDITING", "section_header")
                     /\ block[2] = Spacer(1, section_header_space_after)
                     /\ block[3].type = "Table"
                     /\ block[3].data = <<<<"Ctrl+A", "Save">>, <<"Ctrl+&lt;", "Save">>>>
                     /\ block[4] = Spacer(1, config.subsection_spacing)
                     /\ Len(block) = 4
        /\ last = "estimate_pages" => ret = Returned(1)

\* The scenario's content has been built.
C12_Witness ==
    /\ EditingScenario
    /\ last = "_build_content"
    /\ Len(ret.val) = 3
    /\ ret.val[3].type = "KeepTogether"


\* --------------------------------------------------- Flow Packer output claims

\* The flowables of a content list in output order, atomic blocks opened.
RECURSIVE Flat(_)
Flat(content) ==
    IF content = <<>> THEN <<>>
    ELSE (IF Head(content).type = "KeepTogether" THEN Head(content).flowables
          ELSE <<Head(content)>>)
         \o Flat(Tail(content))

IsSectionHeaderFlowable(f) == f.type = "Paragraph" /\ f.style = "section_header"

\* Positions of the section headers in a flat flowable list, ascending.
RECURSIVE SectionHeaderPositions(_, _)
SectionHeaderPositions(flat, p) ==
    IF p > Len(flat) THEN <<>>
    ELSE (IF IsSectionHeaderFlowable(flat[p]) THEN <<p>> ELSE <<>>)
         \o SectionHeaderPositions(flat, p + 1)

\* f is the inter-section spacer of the configuration.
IsInterSectionSpacer(f, cfg) ==
    IF cfg.section_align_flush
    THEN f.type = "ConditionalSpacer" /\ f.height = cfg.section_spacing
    ELSE f = Spacer(1, cfg.section_spacing)

\* C13: in the sequence returned by _build_content every section but the
\* first has exactly one inter-section spacer directly before its section
\* header, in every size branch (a conditional spacer of height
\* section_spacing under section_align_flush, a fixed one otherwise), and
\* the first section has none.
C13_SpacerBeforeEverySection ==
    last = "_build_content" =>
        LET flat == Flat(ret.val)
            at == SectionHeaderPositions(flat, 1)
        IN  /\ Len(at) = Len(get_sections(hotkeys))
            /\ \A k \in 1..Len(at) :
                  /\ k = 1 => ~IsInterSectionSpacer(flat[at[k] - 1], config)
                  /\ k > 1 => /\ IsInterSectionSpacer(flat[at[k] - 1], config)
                              /\ ~IsInterSectionSpacer(flat[at[k] - 2], config)


\* The inter-section spacer of the k-th section, as a flowable list: none
\* for the first section.
PreSectionSpacer(k, cfg) ==
    IF k = 1 THEN <<>>
    ELSE IF cfg.section_align_flush
    THEN <<ConditionalSpacer(cfg.section_spacing, _get_actual_frame_height(cfg),
                             FRAME_PADDING_TOP + FRAME_PADDING_BOTTOM)>>
    ELSE <<Spacer(1, cfg.section_spacing)>>

\* The section header of a section and its trailing spacer.
HeaderAndSpacer(section) ==
    <<Paragraph(upper(section.name), "section_header"),
      Spacer(1, section_header_space_after)>>

\* The fewer-than-3-items rule forces the section into one block.
ForcedAtomic(section, cfg) ==
    cfg.section_no_awkward_breaks /\ _count_section_items(section.subsections) < 3

\* C14: a section not forced atomic by the fewer-than-3-items rule with
\* estimated height h takes the medium branch for 100 <= h <= 200, both
\* bounds included: one atomic block per subsection, the first made of the
\* pre-section spacer (if any), the section header, its trailing spacer and
\* the first subsection's content, each later subsection in its own block;
\* for h < 100 it is one block holding the whole section, and for h > 200
\* it is split by subsection with the header opening the first block.
C14_StrictThresholds ==
    last = "_build_content" =>
        LET index == get_sections(hotkeys)
        IN  /\ WellSectioned(ret.val, index)
            /\ \A k \in 1..Len(index) :
                 ~ForcedAtomic(index[k], config) =>
                    LET h == _estimate_section_height(index[k].subsections, config)
                        subs == index[k].subsections
                        blocks == BlocksOfSection(ret.val, k)
                    IN  /\ (100 <= h /\ h <= 200) =>
                              /\ Len(blocks) = Len(subs)
                              /\ blocks[1].flowables =
                                     PreSectionSpacer(k, config) \o HeaderAndSpacer(index[k])
                                         \o SubsectionContent(subs[1], config)
                              /\ \A j \in 2..Len(subs) :
                                     blocks[j].flowables = SubsectionContent(subs[j], config)
                        /\ h < 100 =>
                              /\ Len(blocks) = 1
                              /\ blocks[1].flowables =
                                     PreSectionSpacer(k, config) \o HeaderAndSpacer(index[k])
                                         \o AllSubsectionContent(subs, config)
                        /\ h > 200 =>
                              /\ Len(blocks) = Len(subs)
                              /\ SubSeq(blocks[1].flowables, 1, 2) = HeaderAndSpacer(index[k])
                              /\ \A j \in 2..Len(subs) :
                                     blocks[j].flowables = SubsectionContent(subs[j], config)

\* A first section estimated at exactly 100 and a second of two
\* subsections estimated at exactly 200, neither forced atomic, the second
\* in two blocks of which the first opens with the inter-section spacer.
C14_Witness ==
    /\ last = "_build_content"
    /\ ~config.section_no_awkward_breaks
    /\ Len(get_sections(hotkeys)) = 2
    /\ _estimate_section_height(get_sections(hotkeys)[1].subsections, config) = 100
    /\ _estimate_section_height(get_sections(hotkeys)[2].subsections, config) = 200
    /\ Len(get_sections(hotkeys)[2].subsections) = 2
    /\ Len(BlocksOfSection(ret.val, 2)) = 2
    /\ IsInterSectionSpacer(BlocksOfSection(ret.val, 2)[1].flowables[1], config)


\* The configuration with the other setting of section_no_awkward_breaks.
OtherBreaks(cfg) ==
    [cfg EXCEPT !.section_no_awkward_breaks = ~cfg.section_no_awkward_breaks]

\* C15: the two settings of section_no_awkward_breaks differ only in the
\* fewer-than-3-items rule.  For a document whose sections all have at
\* least 3 hotkeys, _build_content returns the same block sequence under
\* both settings; more generally every section of at least 3 hotkeys gets
\* the same blocks under both; and a section of fewer than 3 hotkeys is one
\* block under the true setting and goes through the size branches under
\* the false one (one block below 100, one per subsection from 100 on).
C15_SettingsDifferOnlyWhenTiny ==
    last = "_build_content" =>
        LET index == get_sections(hotkeys)
            other == _build_content(hotkeys, OtherBreaks(config))
            with == IF config.section_no_awkward_breaks THEN ret.val ELSE other
            without == IF config.section_no_awkward_breaks THEN other ELSE ret.val
        IN  /\ WellSectioned(with, index)
            /\ WellSectioned(without, index)
            /\ (\A k \in 1..Len(index) : TotalItems(hotkeys, index[k].name) >= 3)
                   => with = without
            /\ \A k \in 1..Len(index) :
                 IF TotalItems(hotkeys, index[k].name) >= 3
                 THEN BlocksOfSection(with, k) = BlocksOfSection(without, k)
                 ELSE /\ Len(BlocksOfSection(with, k)) = 1
                      /\ Len(BlocksOfSection(without, k)) =
                             IF _estimate_section_height(index[k].subsections, config) < 100
                             THEN 1 ELSE Len(index[k].subsections)

\* A document of one section of at least 3 hotkeys in two subsections,
\* built without awkward-break prevention into two blocks.
C15_Witness ==
    /\ last = "_build_content"
    /\ ~config.section_no_awkward_breaks
    /\ Len(get_sections(hotkeys)) = 1
    /\ Len(hotkeys) >= 3
    /\ Len(get_sections(hotkeys)[1].subsections) = 2
    /\ Len(ret.val) = 4
    /\ ret.val = _build_content(hotkeys, OtherBreaks(config))


\* The block holds the hotkey table of the hotkey list hs: one row of
\* escaped key and description per hotkey, in order.
HoldsTableOf(block, hs) ==
    \E f \in 1..Len(block.flowables) :
        /\ block.flowables[f].type = "Table"
        /\ block.flowables[f].data =
               [p \in 1..Len(hs) |-> <<escape(hs[p].key), escape(hs[p].description)>>]

\* The block holds the header of the subsection called name.
HoldsSubsectionHeader(block, name) ==
    \E f \in 1..Len(block.flowables) :
        block.flowables[f] = Paragraph(name, "subsection_header")

\* C16: no header is orphaned in the output of _build_content.  For every
\* section, in every branch and under both settings of
\* section_no_awkward_breaks, the atomic block that holds the section header
\* also holds the hotkey table of the section's first subsection, and for
\* every subsection not named "General" there is a block of the section
\* holding its subsection header, and every such block also holds that
\* subsection's hotkey table.
C16_NoOrphanedHeader ==
    last = "_build_content" =>
        LET index == get_sections(hotkeys)
        IN  /\ WellSectioned(ret.val, index)
            /\ \A k \in 1..Len(index) :
                 LET subs == index[k].subsections
                     blocks == BlocksOfSection(ret.val, k)
                 IN  /\ HasSectionHeader(blocks[1])
                     /\ HoldsTableOf(blocks[1], subs[1].hotkeys)
                     /\ \A j \in 1..Len(subs) :
                          subs[j].name # "General" =>
                             /\ \E b \in 1..Len(blocks) :
                                    HoldsSubsectionHeader(blocks[b], subs[j].name)
                             /\ \A b \in 1..Len(blocks) :
                                    HoldsSubsectionHeader(blocks[b], subs[j].name)
                                        => HoldsTableOf(blocks[b], subs[j].hotkeys)

\* A second section of at least 3 hotkeys split into two blocks: the first
\* holds the section header and the table of "General", the second the
\* header of "Files" and its table.
C16_Witness ==
    /\ last = "_build_content"
    /\ config.section_no_awkward_breaks
    /\ Len(get_sections(hotkeys)) = 2
    /\ Len(get_sections(hotkeys)[2].subsections) = 2
    /\ get_sections(hotkeys)[2].subsections[2].name = "Files"
    /\ Len(BlocksOfSection(ret.val, 2)) = 2
    /\ HasSectionHeader(BlocksOfSection(ret.val, 2)[1])
    /\ HoldsSubsectionHeader(BlocksOfSection(ret.val, 2)[2], "Files")
    /\ HoldsTableOf(BlocksOfSection(ret.val, 2)[2],
                    get_sections(hotkeys)[2].subsections[2].hotkeys)


\* The rows of the tables of a flat flowable list, in output order.
RECURSIVE TableRows(_)
TableRows(flat) ==
    IF flat = <<>> THEN <<>>
    ELSE (IF Head(flat).type = "Table" THEN Head(flat).data ELSE <<>>)
         \o TableRows(Tail(flat))

\* The hotkeys of a subsection list, in order.
RECURSIVE HotkeysOfSubsections(_)
HotkeysOfSubsections(subsections) ==
    IF subsections = <<>> THEN <<>>
    ELSE Head(subsections).hotkeys \o HotkeysOfSubsections(Tail(subsections))

\* The hotkeys of a Section Index in its order: section, then subsection,
\* then list order.
RECURSIVE HotkeysOfIndex(_)
HotkeysOfIndex(index) ==
    IF index = <<>> THEN <<>>
    ELSE HotkeysOfSubsections(Head(index).subsections) \o HotkeysOfIndex(Tail(index))

\* C17: the Flow Packer neither loses nor duplicates content.  The tables
\* of the sequence returned by _build_content all lie in atomic blocks, and
\* their rows, read in output order, are the hotkeys of the document in
\* Section-Index order, one row per hotkey (so every hotkey is in exactly
\* one row of exactly one block); and the section headers, read in output
\* order, are those of the sections of the index, one per section.
C17_NothingLostOrDuplicated ==
    last = "_build_content" =>
        LET index == get_sections(hotkeys)
            flat == Flat(ret.val)
            at == SectionHeaderPositions(flat, 1)
            expected == HotkeysOfIndex(index)
        IN  /\ \A b \in 1..Len(ret.val) : ret.val[b].type # "Table"
            /\ Len(expected) = Len(hotkeys)
            /\ TableRows(flat) =
                  [p \in 1..Len(expected) |->
                      <<escape(expected[p].key), escape(expected[p].description)>>]
            /\ \A p \in 1..Len(hotkeys) :
                  Cardinality({q \in 1..Len(TableRows(flat)) :
                                  TableRows(flat)[q][1] = escape(hotkeys[p].key)}) = 1
            /\ Len(at) = Len(index)
            /\ \A k \in 1..Len(index) :
                  flat[at[k]] = Paragraph(upper(index[k].name), "section_header")

\* A document of two sections whose hotkeys alternate in the list: the
\* rows come out grouped by section, in another order than the list's.
C17_Witness ==
    /\ last = "_build_content"
    /\ Len(hotkeys) = MaxHotkeys
    /\ Len(get_sections(hotkeys)) = 2
    /\ Len(TableRows(Flat(ret.val))) = MaxHotkeys
    /\ HotkeysOfIndex(get_sections(hotkeys)) # hotkeys
    /\ Len(ret.val) >= 5

====
